---- MODULE Spec2Model ----
(***************************************************************************)
(* A model of ssd-benchy (src/src/main.rs): the orchestrator loop of main, *)
(* the worker threads it spawns for every utilization level, the start     *)
(* barrier, the rate limiter, the block partitioner and the percentile     *)
(* statistics.                                                             *)
(*                                                                         *)
(* Time is the monotonic clock read by Instant::now(), in microseconds.    *)
(* The f64 arithmetic of the percentile rank is modelled bit by bit (IEEE   *)
(* 754 binary64, round to nearest even). The f64 quantities of the rate     *)
(* limiter (rates, inter-arrival time, stagger offset) are exact fractions  *)
(* num/den, truncated where the code casts `as u64`; for the configurations *)
(* drawn in the initial states the f64 results agree with the exact ones.   *)
(***************************************************************************)
EXTENDS Integers, Sequences, FiniteSets, TLC

\* ------------------------------------------------------------------ bounds

\* Largest writer_threads value drawn for a run.
MaxThreads == 2
\* Largest number of initialized blocks drawn for a run.
MaxBlocks == 3
\* Largest number of samples the random retention keeps per worker and run.
MaxSamples == 1
\* Granularity of the clock: the clock advances in steps of TickMicros.
TickMicros == 250000
\* A write (and a sync) returns within MaxLatencyTicks clock steps.
MaxLatencyTicks == 1
\* The random retention keeps samples of the first MaxSampledOps writes of a worker.
MaxSampledOps == 4
\* Granularity of the clock in the paced runs, which are followed write by write.
PaceTickMicros == 250
\* Inputs of partition, checked on its own: participants and n.
MaxParticipants == 4
MaxN == 9
\* Inputs of create_from_sample, checked on its own: length and latency values.
MaxLen == 4
MaxLatencyValue == 3
\* Inputs of percentile, checked on its own: lengths 1..MaxRankLen and the
\* multiples of 1000 up to 1000 * MaxThousands.
MaxRankLen == 100
MaxThousands == 41

\* --------------------------------------------------------------- constants

\* const BLOCK_SIZE: usize = 4096 (the worker's buffer and write size).
BLOCK_SIZE == 4096
\* Duration::from_secs / 1e6: microseconds per second.
MicrosPerSecond == 1000000
\* as_nanos(): nanoseconds per microsecond.
NanosPerMicro == 1000

\* --------------------------------------------------------------- helpers

\* f64 `x as u64` of a non-negative fraction: truncation towards zero.
AsU64(f) == f.num \div f.den

\* ------------------------------------------------------------------- f64
\* IEEE 754 binary64 arithmetic, as far as percentile needs it. An f64 value is
\* [m |-> bits, e |-> exponent], the number m * 2^e, with the significand m a
\* sequence of bits, least significant first. Products and quotients are computed
\* exactly on limbs (digits of base LimbBase, least significant first) and then
\* rounded to F64Bits significant bits, to nearest, ties to even.

\* The significand width of binary64.
F64Bits == 53
\* The limbs of the exact arithmetic.
LimbBits == 10
LimbBase == 2 ^ LimbBits
\* Limbs of quotient kept below the significand by a division, before rounding.
F64DivGuardLimbs == 7

Bit(b, i) == IF i \in 1 .. Len(b) THEN b[i] ELSE 0

\* The bits of the limbs l.
Bits(l) ==
    [i \in 1 .. (Len(l) * LimbBits) |->
        (l[((i - 1) \div LimbBits) + 1] \div (2 ^ ((i - 1) % LimbBits))) % 2]

RECURSIVE LimbOf(_, _, _)
\* The value of the k bits of b from position i on.
LimbOf(b, i, k) == IF k = 0 THEN 0 ELSE Bit(b, i) + 2 * LimbOf(b, i + 1, k - 1)

\* The limbs of the bits b.
Limbs(b) ==
    [j \in 1 .. ((Len(b) + LimbBits - 1) \div LimbBits) |->
        LimbOf(b, (j - 1) * LimbBits + 1, LimbBits)]

RECURSIVE NatLimbs(_)
\* The limbs of the natural number n.
NatLimbs(n) == IF n = 0 THEN << >> ELSE << n % LimbBase >> \o NatLimbs(n \div LimbBase)

RECURSIVE LimbsNat(_)
\* The natural number of the limbs l.
LimbsNat(l) == IF l = << >> THEN 0 ELSE l[1] + LimbBase * LimbsNat(Tail(l))

\* The bits of a number written in hexadecimal digits, most significant first.
HexBits(h) ==
    [i \in 1 .. (4 * Len(h)) |-> (h[Len(h) - ((i - 1) \div 4)] \div (2 ^ ((i - 1) % 4))) % 2]

\* The position of the most significant 1 of b, 0 if there is none.
Width(b) ==
    LET ones == { i \in 1 .. Len(b) : b[i] = 1 }
    IN  IF ones = {} THEN 0 ELSE CHOOSE i \in ones : \A j \in ones : j <= i

\* b without its leading zero bits.
Trim(b) == SubSeq(b, 1, Width(b))

RECURSIVE MulSmall(_, _, _)
\* The limbs of l * k + carry, for k below 2^20.
MulSmall(l, k, carry) ==
    IF l = << >> THEN NatLimbs(carry)
    ELSE << (l[1] * k + carry) % LimbBase >>
             \o MulSmall(Tail(l), k, (l[1] * k + carry) \div LimbBase)

\* One step of the long division by d: the limb x below the quotient so far.
DivLimb(hi, x, d) ==
    [q |-> << (hi.r * LimbBase + x) \div d >> \o hi.q, r |-> (hi.r * LimbBase + x) % d]

RECURSIVE DivSmall(_, _)
\* l divided by d, for d below 2^20: [q |-> the quotient's limbs, r |-> remainder].
DivSmall(l, d) ==
    IF l = << >> THEN [q |-> << >>, r |-> 0]
    ELSE DivLimb(DivSmall(Tail(l), d), l[1], d)

\* b + 1.
Inc(b) ==
    IF \A i \in 1 .. Len(b) : b[i] = 1
    THEN [i \in 1 .. (Len(b) + 1) |-> IF i = Len(b) + 1 THEN 1 ELSE 0]
    ELSE [i \in 1 .. Len(b) |->
             IF \A j \in 1 .. (i - 1) : b[j] = 1 THEN 1 - b[i] ELSE b[i]]

\* Round to nearest, ties to even: the trimmed bits b (followed by a non-zero
\* tail when sticky) cut to F64Bits significant bits; shift is the number of bits
\* dropped.
Round53(b, sticky) ==
    IF Len(b) <= F64Bits THEN [m |-> b, shift |-> 0]
    ELSE LET d == Len(b) - F64Bits
             kept == SubSeq(b, d + 1, Len(b))
             rest == sticky \/ \E i \in 1 .. (d - 1) : b[i] = 1
             up == b[d] = 1 /\ (rest \/ kept[1] = 1)
         IN  [m |-> IF up THEN Inc(kept) ELSE kept, shift |-> d]

\* (n as f64) * x, for a natural n below 2^20 (n as f64 is exact).
F64MulNat(n, x) ==
    LET r == Round53(Trim(Bits(MulSmall(Limbs(x.m), n, 0))), FALSE)
    IN  [m |-> r.m, e |-> x.e + r.shift]

\* x / (d as f64), for a natural d below 2^20.
F64DivNat(x, d) ==
    LET dv == DivSmall([j \in 1 .. F64DivGuardLimbs |-> 0] \o Limbs(x.m), d)
        r == Round53(Trim(Bits(dv.q)), dv.r # 0)
    IN  [m |-> r.m, e |-> x.e - F64DivGuardLimbs * LimbBits + r.shift]

\* x.ceil() as usize, for x >= 0 below 2^30.
F64CeilAsUsize(x) ==
    IF x.e >= 0 THEN LimbsNat(Limbs(x.m)) * (2 ^ x.e)
    ELSE LimbsNat(Limbs(SubSeq(x.m, 1 - x.e, Len(x.m))))
             + (IF \E i \in 1 .. (-x.e) : Bit(x.m, i) = 1 THEN 1 ELSE 0)

\* ------------------------------------------------------------- partition

\* A mutant of partition: every worker gets the whole area.
partition_whole(id, participants, n) == [start |-> 0, end |-> n]

\* A mutant of partition: every worker, the last included, gets block_size.
partition_no_remainder(id, participants, n) ==
    LET block_size == n \div participants
        begin == id * block_size
    IN  [start |-> begin, end |-> begin + block_size]

\* fn partition(id, participants, n) -> Range<u64>
partition(id, participants, n) ==
    LET block_size == n \div participants
        begin == id * block_size
        end == IF id = participants - 1 THEN n ELSE begin + block_size
    IN  [start |-> begin, end |-> end]

\* The blocks of a Range<u64>.
RangeSet(r) == {b \in r.start .. (r.end - 1) : TRUE}

\* Range::len, saturating at zero like the iterator of an empty range.
RangeLen(r) == IF r.end >= r.start THEN r.end - r.start ELSE 0

\* ------------------------------------------------------ SummaryStatistics

\* The percentiles create_from_sample asks for, as the f64 literals 50.0, 75.0,
\* 90.0, 99.0 and 99.9 (0x1.8f9999999999ap+6, the double nearest to 99.9).
Percentiles ==
    [p50th |-> [m |-> Bits(NatLimbs(50)), e |-> 0],
     p75th |-> [m |-> Bits(NatLimbs(75)), e |-> 0],
     p90th |-> [m |-> Bits(NatLimbs(90)), e |-> 0],
     p99th |-> [m |-> Bits(NatLimbs(99)), e |-> 0],
     p999th |-> [m |-> HexBits(<< 1, 8, 15, 9, 9, 9, 9, 9, 9, 9, 9, 9, 9, 10 >>),
                 e |-> -46]]

\* let index = ((len as f64) * percentile / 100.0).ceil() as usize - 1
percentile_index(len, p) ==
    F64CeilAsUsize(F64DivNat(F64MulNat(len, p), 100)) - 1

\* The index of each percentile for the slice lengths the sweep and the sample
\* lists produce: the index depends on the length only, and is evaluated once per
\* length.
SweepIndexes ==
    [len \in (1 .. (MaxThreads * MaxSamples + 1)) \cup (1 .. MaxLen) \cup {10} |->
        [f \in DOMAIN Percentiles |-> percentile_index(len, Percentiles[f])]]

\* fn percentile(samples, percentile) -> &Sample (samples[index], zero-based);
\* f names the percentile asked for.
percentile(samples, f) ==
    IF Len(samples) \in DOMAIN SweepIndexes
    THEN samples[SweepIndexes[Len(samples)][f] + 1]
    ELSE samples[percentile_index(Len(samples), Percentiles[f]) + 1]

RECURSIVE InsertByLatency(_, _)
\* Stable insertion of sample x into the sorted sequence s.
InsertByLatency(s, x) ==
    IF s = << >> THEN << x >>
    ELSE IF s[Len(s)].latency <= x.latency THEN Append(s, x)
    ELSE Append(InsertByLatency(SubSeq(s, 1, Len(s) - 1), x), s[Len(s)])

\* A mutant of sort_by_key: the slice is left as it is.
sort_by_key_none(s) == s

RECURSIVE sort_by_key(_)
\* samples.sort_by_key(|sample| sample.latency): a stable ascending sort.
sort_by_key(s) ==
    IF s = << >> THEN << >>
    ELSE InsertByLatency(sort_by_key(SubSeq(s, 1, Len(s) - 1)), s[Len(s)])

\* A mutant of create_from_sample: an empty input yields a zero-filled record.
create_from_sample_zero(samples) ==
    LET sorted == sort_by_key(samples)
    IN  IF sorted = << >>
        THEN [panicked |-> FALSE, samples |-> sorted,
              statistic |-> [min |-> 0, max |-> 0, p50th |-> 0, p75th |-> 0,
                             p90th |-> 0, p99th |-> 0, p999th |-> 0]]
        ELSE [panicked |-> FALSE, samples |-> sorted,
              statistic |-> [min |-> sorted[1].latency,
                             max |-> sorted[Len(sorted)].latency,
                             p50th |-> percentile(sorted, "p50th").latency,
                             p75th |-> percentile(sorted, "p75th").latency,
                             p90th |-> percentile(sorted, "p90th").latency,
                             p99th |-> percentile(sorted, "p99th").latency,
                             p999th |-> percentile(sorted, "p999th").latency]]

\* pub fn create_from_sample(samples: &mut [Sample]) -> SummaryStatistics.
\* The slice is sorted in place; first()/last() of an empty slice is None and
\* expect("no samples collected") panics.
create_from_sample(samples) ==
    LET sorted == sort_by_key(samples)
    IN  IF sorted = << >>
        THEN [panicked |-> TRUE, samples |-> sorted]
        ELSE [panicked |-> FALSE, samples |-> sorted,
              statistic |-> [min |-> sorted[1].latency,
                             max |-> sorted[Len(sorted)].latency,
                             p50th |-> percentile(sorted, "p50th").latency,
                             p75th |-> percentile(sorted, "p75th").latency,
                             p90th |-> percentile(sorted, "p90th").latency,
                             p99th |-> percentile(sorted, "p99th").latency,
                             p999th |-> percentile(sorted, "p999th").latency]]

\* ------------------------------------------------------------ RateLimiter

\* let write_rate = config.max_iops as f64 * utilization
write_rate(max_iops, utilization) ==
    [num |-> max_iops * utilization.num, den |-> utilization.den]

\* let rate_per_thread = rate / threads as f64;
\* let inter_arrival_time = 1e6 / rate_per_thread; // microseconds
inter_arrival_time(rate, threads) ==
    [num |-> MicrosPerSecond * rate.den * threads, den |-> rate.num]

\* let mut inter_arrival_time_offset = (inter_arrival_time / threads) * thread_id;
\* if spiky { inter_arrival_time_offset = 0.0 }
inter_arrival_time_offset(rate, threads, thread_id, spiky) ==
    LET iat == inter_arrival_time(rate, threads)
    IN  IF spiky THEN [num |-> 0, den |-> 1]
        ELSE [num |-> iat.num * thread_id, den |-> iat.den * threads]

\* RateLimiter::new(rate, threads, thread_id, spiky), called at time t:
\* next_time = Instant::now()
\*     + Duration::from_micros(inter_arrival_time_offset as u64 + inter_arrival_time as u64)
RateLimiter_new(t, rate, threads, thread_id, spiky) ==
    [inter_arrival_time |-> inter_arrival_time(rate, threads),
     next_time |-> t + AsU64(inter_arrival_time_offset(rate, threads, thread_id, spiky))
                     + AsU64(inter_arrival_time(rate, threads))]

\* The first statement of RateLimiter::run:
\* self.next_time = self.next_time + Duration::from_micros(self.inter_arrival_time as u64)
advance_next_time(rl) ==
    [rl EXCEPT !.next_time = rl.next_time + AsU64(rl.inter_arrival_time)]

\* (Instant::now() - self.next_time).as_nanos(): Instant - Instant saturates at zero.
drift_nanos(t, next) ==
    IF t > next THEN (t - next) * NanosPerMicro ELSE 0

\* A mutant of reported_latency: the drift is discarded.
reported_latency_no_drift(t, begin_t, diff_ns) == (t - begin_t) * NanosPerMicro

\* begin.elapsed().as_nanos(), plus diff when diff > 0: the value given to sampling.
reported_latency(t, begin_t, diff_ns) ==
    LET end == (t - begin_t) * NanosPerMicro
    IN  IF diff_ns > 0 THEN end + diff_ns ELSE end

\* ------------------------------------------------------------------ state

VARIABLES
    config,              \* the parsed CliConfig (the fields the loop reads)
    initialized_blocks,  \* capacity * capacity_fraction / BLOCK_SIZE
    now,                 \* the monotonic clock, microseconds
    tick,                \* the step the clock advances by, microseconds
    level,               \* index of the utilization level main is processing
    main_pc,             \* where the main thread is
    uuid,                \* the run identifier of the current level
    barrier_counter,     \* the AtomicU64 of the current level
    spawned,             \* number of threads spawned for the current level
    joined,              \* number of threads joined for the current level
    benchmark_config,    \* BenchmarkConfig of the current level
    samples,             \* main's merged sample vector
    statistic,           \* SummaryStatistics of the current level
    summary_file,        \* rows appended to the summary file: their BenchmarkConfig
    samples_file,        \* rows appended to the samples file: their uuid
    wpc,                 \* where each worker thread is
    range,               \* each worker's block range
    block_current,       \* each worker's cursor
    operations,          \* each worker's operation counter
    wsamples,            \* each worker's sample vector
    ratelimiter,         \* each worker's RateLimiter
    end_time,            \* each worker's end_time
    diff,                \* RateLimiter::run: diff, nanoseconds
    begin,               \* RateLimiter::run: begin
    res,                 \* the closure's res: bytes written
    written,             \* the blocks each worker has issued a write_at for
    part_args,           \* partition on its own: [participants, n]
    part_ranges,         \* partition on its own: the ranges of ids 0, 1, ...
    stat_samples,        \* create_from_sample on its own: the slice
    stat_result,         \* create_from_sample on its own: << >> or << result >>
    rank_len,            \* percentile on its own: the length of the slice
    rank_index           \* percentile on its own: << >> or << the indexes >>

purevars == << part_args, part_ranges, stat_samples, stat_result, rank_len,
               rank_index >>
cfgvars == << config, initialized_blocks, tick, purevars >>
mainvars == << level, main_pc, uuid, spawned, joined, benchmark_config, samples,
               statistic, summary_file, samples_file >>
loopvars == << range, block_current, operations, wsamples, ratelimiter, end_time,
               diff, begin, res, written >>
vars == << cfgvars, now, mainvars, barrier_counter, wpc, loopvars >>

\* Worker ids of a run: (0..config.writer_threads)
Workers == 0 .. (config.writer_threads - 1)

\* The utilization levels swept, as exact fractions (0.5 and 0.75).
UtilizationLevels == << [num |-> 1, den |-> 2], [num |-> 3, den |-> 4] >>

\* The max_iops values drawn: a paced device and one whose interval is below 1 us.
IopsValues == {16, 4000000}

\* The runtime_seconds values drawn.
RuntimeValues == {1}

NoRange == [start |-> 0, end |-> 0]
NoLimiter == [inter_arrival_time |-> [num |-> 0, den |-> 1], next_time |-> 0]
NoStatistic == [min |-> 0]
NoConfig == [uuid |-> 0]

\* A worker thread that exists and has not ended.
Running == {"open", "arrive", "spin", "loop", "wait", "write", "sync"}
\* Positions inside the timed region, where the thread reads the clock.
Timed == {"wait", "write", "sync"}

\* The state main starts the sweep in, for a configuration c and b blocks.
MainInit(c, b) ==
    /\ config = c
    /\ initialized_blocks = b
    /\ now = 0
    /\ level = 1
    /\ main_pc = "begin"
    /\ uuid = 0
    /\ barrier_counter = 0
    /\ spawned = 0
    /\ joined = 0
    /\ benchmark_config = NoConfig
    /\ samples = << >>
    /\ statistic = NoStatistic
    /\ summary_file = << >>
    /\ samples_file = << >>
    /\ wpc = [w \in 0 .. (c.writer_threads - 1) |-> "idle"]
    /\ range = [w \in 0 .. (c.writer_threads - 1) |-> NoRange]
    /\ block_current = [w \in 0 .. (c.writer_threads - 1) |-> 0]
    /\ operations = [w \in 0 .. (c.writer_threads - 1) |-> 0]
    /\ wsamples = [w \in 0 .. (c.writer_threads - 1) |-> << >>]
    /\ ratelimiter = [w \in 0 .. (c.writer_threads - 1) |-> NoLimiter]
    /\ end_time = [w \in 0 .. (c.writer_threads - 1) |-> 0]
    /\ diff = [w \in 0 .. (c.writer_threads - 1) |-> 0]
    /\ begin = [w \in 0 .. (c.writer_threads - 1) |-> 0]
    /\ res = [w \in 0 .. (c.writer_threads - 1) |-> 0]
    /\ written = [w \in 0 .. (c.writer_threads - 1) |-> {}]

\* No pure-function call is under check.
PureIdle ==
    /\ part_args = [participants |-> 1, n |-> 0]
    /\ part_ranges = << >>
    /\ stat_samples = << >>
    /\ stat_result = << >>
    /\ rank_len = 1
    /\ rank_index = << >>

\* The configurations of the sweep: a device paced at 16 IOPS, staggered starts,
\* with synced writes and the samples file, or with neither.
Configs ==
    { c \in [writer_threads : 1 .. MaxThreads,
             max_iops : {16},
             utilization_iops : {UtilizationLevels},
             use_fsync : BOOLEAN,
             serialize_samples : BOOLEAN,
             spiky : {FALSE},
             runtime_seconds : RuntimeValues] :
        c.serialize_samples = c.use_fsync }

Init ==
    /\ \E c \in Configs, b \in 0 .. MaxBlocks : MainInit(c, b)
    /\ tick = TickMicros
    /\ PureIdle

\* The configurations the rate limiter is checked on: both rates, both start modes.
RateConfigs ==
    [writer_threads : {MaxThreads},
     max_iops : IopsValues,
     utilization_iops : {UtilizationLevels},
     use_fsync : {TRUE},
     serialize_samples : {TRUE},
     spiky : BOOLEAN,
     runtime_seconds : RuntimeValues]

RateInit ==
    /\ \E c \in RateConfigs : MainInit(c, MaxBlocks)
    /\ tick = TickMicros
    /\ PureIdle

\* The configurations of the paced runs: one worker at 3992 operations per second
\* (7984 IOPS at utilization 0.5, an inter-arrival time of 250.501 microseconds),
\* one level, and a device that completes a write within one clock step.
PaceConfigs ==
    [writer_threads : {1},
     max_iops : {7984},
     utilization_iops : {<< [num |-> 1, den |-> 2] >>},
     use_fsync : {TRUE},
     serialize_samples : {TRUE},
     spiky : {FALSE},
     runtime_seconds : RuntimeValues]

\* The configurations of the low-rate runs: one level, MaxThreads workers on a
\* device rated at 4 IOPS, whose first deadline falls after the end of the run.
LowRateConfigs ==
    [writer_threads : {MaxThreads},
     max_iops : {4},
     utilization_iops : {<< [num |-> 1, den |-> 2] >>},
     use_fsync : {TRUE},
     serialize_samples : {TRUE},
     spiky : {FALSE},
     runtime_seconds : RuntimeValues]

LowRateInit ==
    /\ \E c \in LowRateConfigs : MainInit(c, MaxBlocks)
    /\ tick = TickMicros
    /\ PureIdle

PaceInit ==
    /\ \E c \in PaceConfigs : MainInit(c, MaxBlocks)
    /\ tick = PaceTickMicros
    /\ PureIdle

\* ------------------------------------------------------------ main thread

\* (iops_utilization * config.max_iops as f64) as u64
iops_of(max_iops, utilization) == AsU64(write_rate(max_iops, utilization))

\* BenchmarkConfig::from_cli_config(config, iops_utilization, uuid), called at time t
from_cli_config(c, iops_utilization, id, t) ==
    [start_time |-> t \div MicrosPerSecond,
     writer_threads |-> c.writer_threads,
     runtime_seconds |-> c.runtime_seconds,
     max_iops |-> c.max_iops,
     utilization_iop |-> iops_utilization,
     iops |-> iops_of(c.max_iops, iops_utilization),
     use_fsync |-> c.use_fsync,
     uuid |-> id,
     spiky |-> c.spiky]

\* The process ends when the main thread panics (or returns): no thread of it
\* takes a step any more, wherever it was.
ProcessAlive == main_pc \notin {"panicked", "done"}

\* for utilization in config.utilization_iops.iter(): one iteration starts.
\* let uuid = Uuid::new_v4(); let barrier_counter = Arc::new(AtomicU64::new(0));
BeginLevel ==
    /\ main_pc = "begin"
    /\ uuid' = level
    /\ barrier_counter' = 0
    /\ spawned' = 0
    /\ joined' = 0
    /\ wpc' = [w \in Workers |-> "idle"]
    /\ range' = [w \in Workers |-> NoRange]
    /\ block_current' = [w \in Workers |-> 0]
    /\ operations' = [w \in Workers |-> 0]
    /\ wsamples' = [w \in Workers |-> << >>]
    /\ ratelimiter' = [w \in Workers |-> NoLimiter]
    /\ end_time' = [w \in Workers |-> 0]
    /\ diff' = [w \in Workers |-> 0]
    /\ begin' = [w \in Workers |-> 0]
    /\ res' = [w \in Workers |-> 0]
    /\ written' = [w \in Workers |-> {}]
    /\ main_pc' = "spawn"
    /\ UNCHANGED << cfgvars, now, level, benchmark_config, samples, statistic,
                    summary_file, samples_file >>

\* (0..config.writer_threads).map(|worker_id| std::thread::spawn(...)): one spawn.
Spawn ==
    /\ main_pc = "spawn"
    /\ spawned < config.writer_threads
    /\ wpc' = [wpc EXCEPT ![spawned] = "open"]
    /\ spawned' = spawned + 1
    /\ UNCHANGED << cfgvars, now, level, main_pc, uuid, joined, benchmark_config,
                    samples, statistic, summary_file, samples_file, barrier_counter,
                    loopvars >>

\* .collect(), then BenchmarkConfig::from_cli_config and let mut samples = vec![]
MakeBenchmarkConfig ==
    /\ main_pc = "spawn"
    /\ spawned = config.writer_threads
    /\ benchmark_config' =
           from_cli_config(config, config.utilization_iops[level], uuid, now)
    /\ samples' = << >>
    /\ main_pc' = "join"
    /\ UNCHANGED << cfgvars, now, level, uuid, spawned, joined, statistic,
                    summary_file, samples_file, barrier_counter, wpc, loopvars >>

\* A mutant of JoinOk: main takes the thread's samples without waiting for its end.
JoinOk_no_wait ==
    /\ main_pc = "join"
    /\ joined < config.writer_threads
    /\ wpc[joined] \in Running \cup {"returned"}
    /\ samples' = samples \o wsamples[joined]
    /\ wpc' = [wpc EXCEPT ![joined] = IF @ = "returned" THEN "joined" ELSE @]
    /\ joined' = joined + 1
    /\ UNCHANGED << cfgvars, now, level, main_pc, uuid, spawned, benchmark_config,
                    statistic, summary_file, samples_file, barrier_counter, loopvars >>

\* let mut s = th.join().unwrap(); samples.append(&mut s): the thread returned.
JoinOk ==
    /\ main_pc = "join"
    /\ joined < config.writer_threads
    /\ wpc[joined] = "returned"
    /\ samples' = samples \o wsamples[joined]
    /\ wpc' = [wpc EXCEPT ![joined] = "joined"]
    /\ joined' = joined + 1
    /\ UNCHANGED << cfgvars, now, level, main_pc, uuid, spawned, benchmark_config,
                    statistic, summary_file, samples_file, barrier_counter, loopvars >>

\* th.join().unwrap() on a thread that panicked: main panics, the process ends.
JoinErr ==
    /\ main_pc = "join"
    /\ joined < config.writer_threads
    /\ wpc[joined] = "panicked"
    /\ main_pc' = "panicked"
    /\ UNCHANGED << cfgvars, now, level, uuid, spawned, joined, benchmark_config,
                    samples, statistic, summary_file, samples_file, barrier_counter,
                    wpc, loopvars >>

\* let statistic = SummaryStatistics::create_from_sample(&mut samples)
Statistics ==
    /\ main_pc = "join"
    /\ joined = config.writer_threads
    /\ LET r == create_from_sample(samples)
       IN  /\ samples' = r.samples
           /\ IF r.panicked
              THEN /\ main_pc' = "panicked"
                   /\ UNCHANGED statistic
              ELSE /\ main_pc' = "summary"
                   /\ statistic' = r.statistic
    /\ UNCHANGED << cfgvars, now, level, uuid, spawned, joined, benchmark_config,
                    summary_file, samples_file, barrier_counter, wpc, loopvars >>

\* wtr.serialize((benchmark_config.clone(), statistic)); wtr.flush(). The file is
\* the external sink: a row is kept as its BenchmarkConfig columns, its statistic
\* columns are those of `statistic` in the state the row is written in.
EmitSummary ==
    /\ main_pc = "summary"
    /\ summary_file' = Append(summary_file, benchmark_config)
    /\ main_pc' = "samples"
    /\ UNCHANGED << cfgvars, now, level, uuid, spawned, joined, benchmark_config,
                    samples, statistic, samples_file, barrier_counter, wpc, loopvars >>

\* if config.serialize_samples { for s in samples { wtr.serialize(&s) } }, and the
\* end of the loop body, where its locals (samples, statistic, benchmark_config)
\* are dropped: the next utilization level, or the end of main.
EmitSamples ==
    /\ main_pc = "samples"
    /\ samples_file' = IF config.serialize_samples
                       THEN samples_file \o [k \in DOMAIN samples |-> samples[k].uuid]
                       ELSE samples_file
    /\ level' = level + 1
    /\ main_pc' = IF level < Len(config.utilization_iops) THEN "begin" ELSE "done"
    /\ samples' = << >>
    /\ statistic' = NoStatistic
    /\ benchmark_config' = NoConfig
    /\ UNCHANGED << cfgvars, now, uuid, spawned, joined, summary_file,
                    barrier_counter, wpc, loopvars >>

\* ---------------------------------------------------------- worker threads

\* What write_at can return: Ok(BLOCK_SIZE), a short write Ok(0), or Err.
WriteOutcomes == {"full", "short", "err"}

\* The thread's setup up to the barrier: open(ssd_path).unwrap() succeeds, then
\* samples, range = partition(worker_id, writer_threads, initialized_blocks),
\* block_current = range.start, operations = 0.
OpenOk(w) ==
    /\ wpc[w] = "open"
    /\ wpc' = [wpc EXCEPT ![w] = "arrive"]
    /\ wsamples' = [wsamples EXCEPT ![w] = << >>]
    /\ range' = [range EXCEPT ![w] =
                     partition(w, config.writer_threads, initialized_blocks)]
    /\ block_current' = [block_current EXCEPT ![w] =
                     partition(w, config.writer_threads, initialized_blocks).start]
    /\ operations' = [operations EXCEPT ![w] = 0]
    /\ UNCHANGED << cfgvars, now, mainvars, barrier_counter, ratelimiter, end_time,
                    diff, begin, res, written >>

\* open(ssd_path) fails: unwrap() panics, the thread dies before the barrier.
OpenErr(w) ==
    /\ wpc[w] = "open"
    /\ wpc' = [wpc EXCEPT ![w] = "panicked"]
    /\ UNCHANGED << cfgvars, now, mainvars, barrier_counter, loopvars >>

\* A mutant of Arrive: the increment is by two.
Arrive_twice(w) ==
    /\ wpc[w] = "arrive"
    /\ barrier_counter' = barrier_counter + 2
    /\ wpc' = [wpc EXCEPT ![w] = "spin"]
    /\ UNCHANGED << cfgvars, now, mainvars, loopvars >>

\* barrier_counter.fetch_add(1, SeqCst)
Arrive(w) ==
    /\ wpc[w] = "arrive"
    /\ barrier_counter' = barrier_counter + 1
    /\ wpc' = [wpc EXCEPT ![w] = "spin"]
    /\ UNCHANGED << cfgvars, now, mainvars, loopvars >>

\* A mutant of barrier_open: the spin ends one increment early.
barrier_open_early(counter, threads) == counter >= threads - 1

\* The spin's exit test: barrier_counter.load(SeqCst) != config.writer_threads is false.
barrier_open(counter, threads) == counter = threads

\* while barrier_counter.load(SeqCst) != config.writer_threads { spin_loop() } ends;
\* then RateLimiter::new(write_rate, writer_threads, worker_id, spiky) and
\* end_time = Instant::now() + Duration::from_secs(runtime_seconds).
LeaveBarrier(w) ==
    /\ wpc[w] = "spin"
    /\ barrier_open(barrier_counter, config.writer_threads)
    /\ ratelimiter' = [ratelimiter EXCEPT ![w] =
           RateLimiter_new(now,
                           write_rate(config.max_iops, config.utilization_iops[level]),
                           config.writer_threads, w, config.spiky)]
    /\ end_time' = [end_time EXCEPT ![w] =
                        now + config.runtime_seconds * MicrosPerSecond]
    /\ wpc' = [wpc EXCEPT ![w] = "loop"]
    /\ UNCHANGED << cfgvars, now, mainvars, barrier_counter, range, block_current,
                    operations, wsamples, diff, begin, res, written >>

\* A mutant of reset_cursor: the cursor wraps one block late.
reset_cursor_late(cursor, r) == IF cursor > r.end THEN r.start ELSE cursor

\* if block_current >= range.end { block_current = range.start }
reset_cursor(cursor, r) == IF cursor >= r.end THEN r.start ELSE cursor

\* A mutant of EnterLoop: the body is entered without the deadline test.
EnterLoop_no_deadline(w) ==
    /\ wpc[w] = "loop"
    /\ block_current' = [block_current EXCEPT ![w] =
                             reset_cursor(block_current[w], range[w])]
    /\ ratelimiter' = [ratelimiter EXCEPT ![w] = advance_next_time(ratelimiter[w])]
    /\ diff' = [diff EXCEPT ![w] =
                    drift_nanos(now, advance_next_time(ratelimiter[w]).next_time)]
    /\ wpc' = [wpc EXCEPT ![w] = "wait"]
    /\ UNCHANGED << cfgvars, now, mainvars, barrier_counter, range, operations,
                    wsamples, end_time, begin, res, written >>

\* while Instant::now() < end_time: the body is entered. The cursor wraps, and
\* ratelimiter.run starts: next_time is advanced and diff is taken.
EnterLoop(w) ==
    /\ wpc[w] = "loop"
    /\ now < end_time[w]
    /\ block_current' = [block_current EXCEPT ![w] =
                             reset_cursor(block_current[w], range[w])]
    /\ ratelimiter' = [ratelimiter EXCEPT ![w] = advance_next_time(ratelimiter[w])]
    /\ diff' = [diff EXCEPT ![w] =
                    drift_nanos(now, advance_next_time(ratelimiter[w]).next_time)]
    /\ wpc' = [wpc EXCEPT ![w] = "wait"]
    /\ UNCHANGED << cfgvars, now, mainvars, barrier_counter, range, operations,
                    wsamples, end_time, begin, res, written >>

\* while Instant::now() < end_time is false: the closure returns samples.
Return(w) ==
    /\ wpc[w] = "loop"
    /\ ~(now < end_time[w])
    /\ wpc' = [wpc EXCEPT ![w] = "returned"]
    /\ UNCHANGED << cfgvars, now, mainvars, barrier_counter, loopvars >>

\* A mutant of wait_until_done: the spin is skipped.
wait_until_skipped(t, next) == TRUE

\* RateLimiter::wait_until(next): the spin ends once next.duration_since(now) is zero.
wait_until_done(t, next) == ~(next > t)

\* wait_until(self.next_time) returns; let begin = Instant::now(); action() starts:
\* write_at(&buffer.0, block_current * BLOCK_SIZE) is issued.
StartWrite(w) ==
    /\ wpc[w] = "wait"
    /\ wait_until_done(now, ratelimiter[w].next_time)
    /\ begin' = [begin EXCEPT ![w] = now]
    /\ written' = [written EXCEPT ![w] = @ \cup {block_current[w]}]
    /\ wpc' = [wpc EXCEPT ![w] = "write"]
    /\ UNCHANGED << cfgvars, now, mainvars, barrier_counter, range, block_current,
                    operations, wsamples, ratelimiter, end_time, diff, res >>

\* The most samples the random retention keeps per worker and run: MaxSamples
\* when several workers run, one more for a single worker.
SampleCap(threads) == IF threads = 1 THEN MaxSamples + 1 ELSE MaxSamples

\* A mutant of Complete: the counter and the cursor move only when the latency
\* was retained.
Complete_retained_only(w, r) ==
    IF r # BLOCK_SIZE
    THEN /\ wpc' = [wpc EXCEPT ![w] = "panicked"]
         /\ UNCHANGED << wsamples, operations, block_current >>
    ELSE /\ \E retain \in BOOLEAN :
                /\ retain => /\ Len(wsamples[w]) < SampleCap(config.writer_threads)
                             /\ operations[w] < MaxSampledOps
                /\ wsamples' = [wsamples EXCEPT ![w] =
                       IF retain
                       THEN Append(@, [latency |-> reported_latency(now, begin[w], diff[w]),
                                       id |-> operations[w],
                                       uuid |-> uuid])
                       ELSE @]
                /\ operations' = [operations EXCEPT ![w] = IF retain THEN @ + 1 ELSE @]
                /\ block_current' = [block_current EXCEPT ![w] = IF retain THEN @ + 1 ELSE @]
         /\ wpc' = [wpc EXCEPT ![w] = "loop"]

\* The tail of one loop iteration, entered with the closure's res = r:
\* assert_eq!(res, BLOCK_SIZE); end = begin.elapsed() (+ diff); sampling(end), which
\* keeps a Sample when fastrand::u64(0..1000) <= 1; operations += 1; block_current += 1.
Complete(w, r) ==
    IF r # BLOCK_SIZE
    THEN /\ wpc' = [wpc EXCEPT ![w] = "panicked"]
         /\ UNCHANGED << wsamples, operations, block_current >>
    ELSE /\ \E retain \in BOOLEAN :
                /\ retain => /\ Len(wsamples[w]) < SampleCap(config.writer_threads)
                             /\ operations[w] < MaxSampledOps
                /\ wsamples' = [wsamples EXCEPT ![w] =
                       IF retain
                       THEN Append(@, [latency |-> reported_latency(now, begin[w], diff[w]),
                                       id |-> operations[w],
                                       uuid |-> uuid])
                       ELSE @]
         /\ operations' = [operations EXCEPT ![w] = @ + 1]
         /\ block_current' = [block_current EXCEPT ![w] = @ + 1]
         /\ wpc' = [wpc EXCEPT ![w] = "loop"]

\* write_at(...).expect("could not write") returns after at least one clock step.
WriteAt(w) ==
    /\ wpc[w] = "write"
    /\ now > begin[w]
    /\ \E outcome \in WriteOutcomes :
          IF outcome = "err"
          THEN /\ wpc' = [wpc EXCEPT ![w] = "panicked"]
               /\ UNCHANGED << res, wsamples, operations, block_current >>
          ELSE LET r == IF outcome = "full" THEN BLOCK_SIZE ELSE 0
               IN  /\ res' = [res EXCEPT ![w] = r]
                   /\ IF config.use_fsync
                      THEN /\ wpc' = [wpc EXCEPT ![w] = "sync"]
                           /\ UNCHANGED << wsamples, operations, block_current >>
                      ELSE Complete(w, r)
    /\ UNCHANGED << cfgvars, now, mainvars, barrier_counter, range, ratelimiter,
                    end_time, diff, begin, written >>

\* if config.use_fsync { ssd_fd.sync_data().unwrap() } succeeds.
SyncOk(w) ==
    /\ wpc[w] = "sync"
    /\ Complete(w, res[w])
    /\ UNCHANGED << cfgvars, now, mainvars, barrier_counter, range, ratelimiter,
                    end_time, diff, begin, res, written >>

\* A mutant of SyncErr: the failed sync is retried from the write.
SyncErr_retry(w) ==
    /\ wpc[w] = "sync"
    /\ wpc' = [wpc EXCEPT ![w] = "write"]
    /\ UNCHANGED << cfgvars, now, mainvars, barrier_counter, loopvars >>

\* ssd_fd.sync_data() fails: unwrap() panics.
SyncErr(w) ==
    /\ wpc[w] = "sync"
    /\ wpc' = [wpc EXCEPT ![w] = "panicked"]
    /\ UNCHANGED << cfgvars, now, mainvars, barrier_counter, loopvars >>

\* ------------------------------------------------------------------ clock

\* The threads run on cores of their own and one clock step is long (tick):
\* a statement that neither spins nor does I/O takes no clock step. A thread at
\* the loop test, or at the barrier once the counter is full, moves on first.
Urgent(w) ==
    \/ wpc[w] = "loop"
    \/ wpc[w] = "spin" /\ barrier_open(barrier_counter, config.writer_threads)

\* The latest instant up to which a thread in the timed region can stay where it
\* is: the spin of wait_until ends at next_time, a write or sync returns within
\* MaxLatencyTicks clock steps.
Limit(w) ==
    IF wpc[w] = "wait" THEN ratelimiter[w].next_time
    ELSE begin[w] + MaxLatencyTicks * tick

\* Instant::now() moves on by one clock step.
Tick ==
    /\ ProcessAlive
    /\ \E w \in Workers : wpc[w] \in Timed
    /\ \A w \in Workers : ~Urgent(w)
    /\ \A w \in Workers : wpc[w] \in Timed => now < Limit(w)
    /\ now' = now + tick
    /\ UNCHANGED << cfgvars, mainvars, barrier_counter, wpc, loopvars >>

\* ---------------------------------------------------------- specification

MainStep ==
    \/ BeginLevel
    \/ Spawn
    \/ MakeBenchmarkConfig
    \/ JoinOk
    \/ JoinErr
    \/ Statistics
    \/ EmitSummary
    \/ EmitSamples

WorkerStep(w) ==
    \/ OpenOk(w)
    \/ OpenErr(w)
    \/ Arrive(w)
    \/ LeaveBarrier(w)
    \/ EnterLoop(w)
    \/ Return(w)
    \/ StartWrite(w)
    \/ WriteAt(w)
    \/ SyncOk(w)
    \/ SyncErr(w)

Next ==
    \/ MainStep
    \/ \E w \in Workers : ProcessAlive /\ WorkerStep(w)
    \/ Tick

\* The sweep, over the paced configurations.
Spec == Init /\ [][Next]_vars

\* The sweep, over the configurations that vary the rate and the start mode.
RateSpec == RateInit /\ [][Next]_vars

\* The paced runs.
PaceSpec == PaceInit /\ [][Next]_vars

\* Scheduling: the main thread and every worker are OS threads that keep running
\* while the process lives, and the clock keeps advancing.
Fairness ==
    /\ WF_vars(MainStep)
    /\ WF_vars(Tick)
    /\ \A w \in 0 .. (MaxThreads - 1) :
           WF_vars(w \in Workers /\ ProcessAlive /\ WorkerStep(w))

\* The low-rate runs, under that scheduling.
FairLowRateSpec == LowRateInit /\ [][Next]_vars /\ Fairness

\* ------------------------------------------------ pure functions on their own

\* The state of the sweep while a pure function is checked on its own.
SweepIdle == MainInit(CHOOSE c \in Configs : TRUE, 0) /\ tick = TickMicros

sweepvars == << config, initialized_blocks, now, tick, mainvars, barrier_counter,
                wpc, loopvars >>

\* partition is called for id = 0, 1, ..., participants - 1 in turn.
PartitionInit ==
    /\ SweepIdle
    /\ part_args \in [participants : 1 .. MaxParticipants, n : 0 .. MaxN]
    /\ part_ranges = << >>
    /\ stat_samples = << >>
    /\ stat_result = << >>
    /\ rank_len = 1
    /\ rank_index = << >>

PartitionCall ==
    /\ Len(part_ranges) < part_args.participants
    /\ part_ranges' = Append(part_ranges,
           partition(Len(part_ranges), part_args.participants, part_args.n))
    /\ UNCHANGED << sweepvars, part_args, stat_samples, stat_result, rank_len,
                    rank_index >>

PartitionSpec == PartitionInit /\ [][PartitionCall]_vars

\* The sample with latency l pushed as the k-th of a vector.
SampleOf(l, k) == [latency |-> l, id |-> k - 1, uuid |-> 1]

\* The latencies 1..10 of the percentile example, ascending and descending.
ExampleLatencies ==
    { [i \in 1 .. 10 |-> i], [i \in 1 .. 10 |-> 11 - i] }

\* The latency lists create_from_sample is called on.
LatencyLists ==
    UNION { [1 .. k -> 1 .. MaxLatencyValue] : k \in 0 .. MaxLen } \cup ExampleLatencies

StatsInit ==
    /\ SweepIdle
    /\ part_args = [participants |-> 1, n |-> 0]
    /\ part_ranges = << >>
    /\ \E f \in LatencyLists : stat_samples = [k \in DOMAIN f |-> SampleOf(f[k], k)]
    /\ stat_result = << >>
    /\ rank_len = 1
    /\ rank_index = << >>

StatsCall ==
    /\ stat_result = << >>
    /\ stat_result' = << create_from_sample(stat_samples) >>
    /\ UNCHANGED << sweepvars, part_args, part_ranges, stat_samples, rank_len,
                    rank_index >>

StatsSpec == StatsInit /\ [][StatsCall]_vars

\* The slice lengths percentile is called on: the short ones, and the thousands.
RankLens == (1 .. MaxRankLen) \cup { 1000 * k : k \in 1 .. MaxThousands }

RankInit ==
    /\ SweepIdle
    /\ part_args = [participants |-> 1, n |-> 0]
    /\ part_ranges = << >>
    /\ stat_samples = << >>
    /\ stat_result = << >>
    /\ rank_len \in RankLens
    /\ rank_index = << >>

\* The index percentile computes for each of the five percentiles, on a slice of
\* rank_len samples.
RankCall ==
    /\ rank_index = << >>
    /\ rank_index' =
           << [f \in DOMAIN Percentiles |-> percentile_index(rank_len, Percentiles[f])] >>
    /\ UNCHANGED << sweepvars, part_args, part_ranges, stat_samples, stat_result,
                    rank_len >>

RankSpec == RankInit /\ [][RankCall]_vars

\* ------------------------------------------------------------------ claims

\* C1: for participants N >= 1 and n = M >= 0, the N ranges partition(i, N, M) are
\* pairwise disjoint, their union is exactly [0, M), every range but the last has
\* length floor(M / N), and the last one ends at M.
C1_PartitionComplete ==
    Len(part_ranges) = part_args.participants =>
        LET N == part_args.participants
            M == part_args.n
        IN  /\ \A i, j \in 1 .. N :
                   i # j => RangeSet(part_ranges[i]) \cap RangeSet(part_ranges[j]) = {}
            /\ UNION { RangeSet(part_ranges[i]) : i \in 1 .. N } = 0 .. (M - 1)
            /\ \A i \in 1 .. (N - 1) :
                   part_ranges[i].end - part_ranges[i].start = M \div N
            /\ part_ranges[N].end = M
            /\ \A i \in 1 .. N : part_ranges[i].start <= part_ranges[i].end

\* C1 witness: all ranges of a partition with a remainder have been computed.
C1_Witness ==
    /\ Len(part_ranges) = part_args.participants
    /\ part_args.participants >= 3
    /\ part_args.n > part_args.participants
    /\ part_args.n % part_args.participants # 0

\* C2: every write a worker issues targets a block inside the worker's own range,
\* begin <= block < end, also when some ranges are empty (M < N).
C2_WritesInsideRange ==
    \A w \in Workers :
        wpc[w] \in {"write", "sync"} =>
            range[w].start <= block_current[w] /\ block_current[w] < range[w].end

\* The worker has left the barrier spin: its rate limiter exists.
PastBarrier(w) ==
    \/ wpc[w] \in {"loop", "wait", "write", "sync", "returned", "joined"}
    \/ wpc[w] = "panicked" /\ ratelimiter[w] # NoLimiter

\* The worker has executed its fetch_add.
Arrived(w) == wpc[w] = "spin" \/ PastBarrier(w)

\* C3: no worker leaves the barrier spin before all N workers of the run have
\* incremented the counter; each worker increments it exactly once; the counter is
\* zero when a run starts.
C3_BarrierSafety ==
    /\ barrier_counter = Cardinality({ w \in Workers : Arrived(w) })
    /\ \A w \in Workers :
           PastBarrier(w) =>
               /\ barrier_counter = config.writer_threads
               /\ \A v \in Workers : Arrived(v)
    /\ (main_pc = "spawn" /\ spawned = 0) => barrier_counter = 0

\* C3 witness: in the second run of two or more workers, one has left the spin and
\* writes while another, having incremented the counter, still spins.
C3_Witness ==
    /\ level = 2
    /\ config.writer_threads >= 2
    /\ \E w, v \in Workers : wpc[w] = "wait" /\ wpc[v] = "spin"

\* C4: once a worker has hit a fatal I/O condition the run goes on to terminate with
\* a failure of the orchestrator (it never hangs before that), and no result record
\* is emitted for that level.
C4_FailureEndsRun ==
    (\E w \in Workers : wpc[w] = "panicked") =>
        /\ main_pc = "panicked" \/ ENABLED Next
        /\ Len(summary_file) < level

\* A worker thread of the live process that has not ended.
Live(w) == ProcessAlive /\ wpc[w] \in Running

\* C5: utilization levels never overlap: workers are live only while main spawns and
\* joins the current level, a level begins only when every worker of the previous
\* one has been joined and its record emitted, and the live workers are at most
\* writer_threads, all of the current level.
C5_LevelsSequential ==
    /\ \A w \in Workers : Live(w) => main_pc \in {"spawn", "join"}
    /\ main_pc \in {"begin", "spawn", "join", "summary"} => Len(summary_file) = level - 1
    /\ main_pc \in {"summary", "samples"} => \A w \in Workers : wpc[w] = "joined"
    /\ main_pc = "begin" => \A w \in Workers : wpc[w] \in {"idle", "joined"}
    /\ { w \in Workers : wpc[w] # "idle" } \subseteq 0 .. (spawned - 1)
    /\ Cardinality({ w \in Workers : Live(w) }) <= config.writer_threads
    /\ \A w \in Workers :
           Live(w) => \A k \in DOMAIN wsamples[w] : wsamples[w][k].uuid = uuid

\* C5 witness: a worker of the second level writes after the first level's record.
C5_Witness ==
    /\ level = 2
    /\ Len(summary_file) = 1
    /\ \E w \in Workers : wpc[w] = "write" /\ operations[w] >= 1

\* C6: statistics over an empty merged sample set fail: no statistics record is
\* made, no summary record is emitted, and main does not go on to the next level.
C6_EmptyStatisticsFail ==
    [][(main_pc = "join" /\ joined = config.writer_threads /\ samples = << >>)
           => /\ main_pc' = "panicked"
              /\ statistic' = statistic
              /\ summary_file' = summary_file
              /\ level' = level]_vars

\* C6 witness: main has failed on the empty merge of workers that did write.
C6_Witness ==
    /\ main_pc = "panicked"
    /\ joined = config.writer_threads
    /\ samples = << >>
    /\ statistic = NoStatistic
    /\ \A w \in Workers : wpc[w] = "joined" /\ operations[w] >= 1

\* The percentiles in tenths of a percent (99.9 is 999).
PercentTenths == [p50th |-> 500, p75th |-> 750, p90th |-> 900, p99th |-> 990, p999th |-> 999]

\* The 1-indexed rank ceil(len * p / 100), p given in tenths of a percent: the
\* least r with r >= len * p / 100.
RankOf(len, p10) == (len * p10 + 999) \div 1000

\* C7: for every non-empty sample list, percentile(p) selects the element at
\* 1-indexed rank ceil(len * p / 100), for p in {50, 75, 90, 99, 99.9}, and the
\* rank is within 1..len.
C7_RankIsCeil ==
    rank_index # << >> =>
        \A f \in DOMAIN Percentiles :
            /\ rank_index[1][f] + 1 = RankOf(rank_len, PercentTenths[f])
            /\ rank_index[1][f] + 1 \in 1 .. rank_len

\* On the sample lists of up to MaxLen samples, and on the latencies 1..10,
\* create_from_sample sorts ascending by latency and reports min = first,
\* max = last and the latency at rank ceil(len * p / 100) for each percentile;
\* for 1..10, p50 = 5, p99 = 10, min = 1, max = 10.
ShortListStatistics ==
    (stat_result # << >> /\ stat_samples # << >>) =>
        LET r == stat_result[1]
            len == Len(stat_samples)
        IN  /\ ~r.panicked
            /\ Len(r.samples) = len
            /\ { r.samples[k] : k \in 1 .. len } = { stat_samples[k] : k \in 1 .. len }
            /\ \A i, j \in 1 .. len :
                   i < j => r.samples[i].latency <= r.samples[j].latency
            /\ r.statistic.min = r.samples[1].latency
            /\ r.statistic.max = r.samples[len].latency
            /\ \A f \in DOMAIN Percentiles :
                   /\ RankOf(len, PercentTenths[f]) \in 1 .. len
                   /\ r.statistic[f] = r.samples[RankOf(len, PercentTenths[f])].latency
            /\ { stat_samples[k].latency : k \in 1 .. len } = 1 .. 10 =>
                   /\ r.statistic.p50th = 5
                   /\ r.statistic.p99th = 10
                   /\ r.statistic.min = 1
                   /\ r.statistic.max = 10

\* C8: a worker with a non-empty range [b, e) writes, as its k-th operation, block
\* b + (k mod (e - b)); the cursor is back at b exactly when it had reached e.
C8_WraparoundOrder ==
    \A w \in Workers :
        (PastBarrier(w) /\ range[w].end > range[w].start) =>
            LET b == range[w].start
                len == range[w].end - range[w].start
                k == operations[w]
            IN  /\ wpc[w] \in {"wait", "write", "sync"} => block_current[w] = b + (k % len)
                /\ (wpc[w] = "loop" /\ k = 0) => block_current[w] = b
                /\ (wpc[w] = "loop" /\ k > 0) =>
                       block_current[w] = b + ((k - 1) % len) + 1

\* C8 witness: a worker writes its range's first block again after a full pass
\* over a range of two or more blocks.
C8_Witness ==
    \E w \in Workers :
        /\ wpc[w] = "write"
        /\ range[w].end - range[w].start >= 2
        /\ operations[w] = range[w].end - range[w].start
        /\ block_current[w] = range[w].start

\* C9: consecutive scheduled deadlines (next_time at successive calls of run) differ
\* by exactly 1e6 / R microseconds, R the per-thread rate.
C9_ExactInterval ==
    [][\A w \in Workers :
           (wpc[w] = "loop" /\ wpc'[w] = "wait") =>
               (ratelimiter'[w].next_time - ratelimiter[w].next_time)
                   * ratelimiter[w].inter_arrival_time.den
               = ratelimiter[w].inter_arrival_time.num]_vars

\* The stagger offset RateLimiter::new applied to next_time, for a worker whose
\* limiter has just been built: next_time minus the time of construction minus the
\* inter-arrival time in whole microseconds.
AppliedOffset(w) ==
    ratelimiter[w].next_time
        - (end_time[w] - config.runtime_seconds * MicrosPerSecond)
        - AsU64(ratelimiter[w].inter_arrival_time)

\* The worker's limiter has been built and run has not been called on it yet.
JustBuilt(w) == wpc[w] = "loop" /\ operations[w] = 0

\* C10: with staggering (spiky = false) the applied offsets strictly increase with
\* the thread id and stay below one inter-arrival interval; with spiky = true every
\* offset is zero.
C10_StaggerOffsets ==
    \A w \in Workers :
        JustBuilt(w) =>
            IF config.spiky THEN AppliedOffset(w) = 0
            ELSE /\ AppliedOffset(w) * ratelimiter[w].inter_arrival_time.den
                        < ratelimiter[w].inter_arrival_time.num
                 /\ (w >= 1 /\ JustBuilt(w - 1)) => AppliedOffset(w) > AppliedOffset(w - 1)

\* The target rate of the level's run times its duration, R * T, as a fraction.
TargetOperations ==
    [num |-> write_rate(config.max_iops, config.utilization_iops[level]).num
                 * config.runtime_seconds,
     den |-> write_rate(config.max_iops, config.utilization_iops[level]).den
                 * config.writer_threads]

\* Every write (and sync) returns in less than one inter-arrival interval.
ActionsWithinInterval ==
    MaxLatencyTicks * tick * inter_arrival_time(
            write_rate(config.max_iops, config.utilization_iops[level]),
            config.writer_threads).den
        < inter_arrival_time(
            write_rate(config.max_iops, config.utilization_iops[level]),
            config.writer_threads).num

\* C11: for a single worker whose actions take less than one inter-arrival
\* interval, the number of operations completed in the run is within 2 of R * T,
\* and every action starts exactly at its scheduled deadline.
C11_Pacing ==
    (config.writer_threads = 1 /\ level <= Len(config.utilization_iops)
         /\ ActionsWithinInterval) =>
        /\ wpc[0] \in {"write", "sync"} => begin[0] = ratelimiter[0].next_time
        /\ wpc[0] = "returned" =>
               /\ (operations[0] - 2) * TargetOperations.den <= TargetOperations.num
               /\ TargetOperations.num <= (operations[0] + 2) * TargetOperations.den

\* C12: the latency given to the sampling callback is elapsed + max(drift, 0):
\* drift is the time at entry to run minus the deadline just advanced, elapsed the
\* time from begin to the return of the action (nanoseconds); entered before the
\* deadline, the latency is elapsed alone.
C12_ReportedLatency ==
    [][\A w \in Workers :
           /\ (wpc[w] = "loop" /\ wpc'[w] = "wait") =>
                  diff'[w] = IF now > ratelimiter'[w].next_time
                             THEN (now - ratelimiter'[w].next_time) * NanosPerMicro
                             ELSE 0
           /\ (main_pc' = main_pc /\ Len(wsamples'[w]) = Len(wsamples[w]) + 1) =>
                  wsamples'[w][Len(wsamples'[w])].latency
                      = (now - begin[w]) * NanosPerMicro + diff[w]]_vars

\* C12 witness: a worker has just retained the latency of a write it entered
\* after its deadline: the elapsed time plus the drift.
C12_Witness ==
    \E w \in Workers :
        /\ wpc[w] = "loop"
        /\ Len(wsamples[w]) >= 1
        /\ wsamples[w][Len(wsamples[w])].id = operations[w] - 1
        /\ diff[w] > 0
        /\ wsamples[w][Len(wsamples[w])].latency
               = (now - begin[w]) * NanosPerMicro + diff[w]

\* The samples s in the order q, as pushed by another worker of another run: the
\* latencies are kept, the sequence ids and the run identifier are not.
Reordered(s, q) ==
    [k \in 1 .. Len(s) |-> [latency |-> s[q[k]].latency, id |-> k + 10, uuid |-> 2]]

\* C13: the statistics depend only on the multiset of latencies: every
\* permutation of the sample list, with any sequence ids and origin, yields the
\* same min, max, p50, p75, p90, p99 and p99.9.
C13_OrderInsensitive ==
    (stat_result # << >> /\ stat_samples # << >> /\ Len(stat_samples) <= MaxLen) =>
        \A q \in Permutations(1 .. Len(stat_samples)) :
            /\ ~create_from_sample(Reordered(stat_samples, q)).panicked
            /\ create_from_sample(Reordered(stat_samples, q)).statistic
                   = stat_result[1].statistic

\* C13 witness: statistics were made of an unsorted list of three or more samples
\* with a tie and two or more distinct latencies.
C13_Witness ==
    /\ stat_result # << >>
    /\ Len(stat_samples) \in 3 .. MaxLen
    /\ stat_samples[1].latency > stat_samples[2].latency
    /\ stat_samples[2].latency < stat_samples[3].latency
    /\ stat_samples[1].latency = stat_samples[3].latency

\* C14: the snapshot of a level (configuration, run identifier, start time) exists
\* before any worker of the level is spawned, is the one emitted, and there is one
\* per level.
C14_SnapshotBeforeSpawn ==
    /\ (\E w \in Workers : wpc[w] # "idle") =>
           benchmark_config # NoConfig /\ benchmark_config.uuid = uuid
    /\ main_pc \in {"join", "summary"} =>
           benchmark_config =
               from_cli_config(config, config.utilization_iops[level], uuid,
                               benchmark_config.start_time * MicrosPerSecond)
    /\ \A k \in DOMAIN summary_file : summary_file[k].uuid = k

\* C15: the action of a call of run starts no earlier than the call's deadline; the
\* spin ends at the first reading of the clock at or after the deadline; a call
\* entered after its deadline (diff > 0) starts its action at once.
C15_StartsAtDeadline ==
    \A w \in Workers :
        /\ wpc[w] \in {"write", "sync"} =>
               /\ begin[w] >= ratelimiter[w].next_time
               /\ diff[w] > 0 =>
                      (begin[w] - ratelimiter[w].next_time) * NanosPerMicro = diff[w]
               /\ diff[w] = 0 => begin[w] < ratelimiter[w].next_time + tick
        /\ wpc[w] = "wait" =>
               (ENABLED StartWrite(w) <=> now >= ratelimiter[w].next_time)

\* C15 witness: a worker that waited for its deadline has started its write at
\* the deadline.
C15_Witness ==
    \E w \in Workers :
        /\ wpc[w] = "write"
        /\ diff[w] = 0
        /\ begin[w] = ratelimiter[w].next_time
        /\ begin[w] > end_time[w] - config.runtime_seconds * MicrosPerSecond

\* C16: every completed write advances the cursor and the operation counter by
\* one, retained or not, and nothing else moves the counter; a retained Sample's
\* id is the number of writes the worker completed before it; the ids of a
\* worker's list strictly increase; every Sample carries the run identifier of its
\* level.
C16_SampleIds ==
    /\ [](\A w \in Workers :
              /\ \A k \in DOMAIN wsamples[w] :
                     /\ wsamples[w][k].id < operations[w]
                     /\ wsamples[w][k].uuid = uuid
              /\ \A j, k \in DOMAIN wsamples[w] :
                     j < k => wsamples[w][j].id < wsamples[w][k].id)
    /\ [][\A w \in Workers :
             /\ (wpc[w] \in {"write", "sync"} /\ wpc'[w] = "loop") =>
                    /\ operations'[w] = operations[w] + 1
                    /\ block_current'[w] = block_current[w] + 1
             /\ (main_pc' = main_pc /\ operations'[w] # operations[w]) =>
                    (wpc[w] \in {"write", "sync"} /\ wpc'[w] = "loop")
             /\ (main_pc' = main_pc /\ wsamples'[w] # wsamples[w]) =>
                    /\ wpc[w] \in {"write", "sync"} /\ wpc'[w] = "loop"
                    /\ wsamples'[w] =
                           Append(wsamples[w],
                                  wsamples'[w][Len(wsamples'[w])])
                    /\ wsamples'[w][Len(wsamples'[w])].id = operations[w]]_vars

\* C16 witness: in the second level a worker holds two samples, of its second and
\* of its third write; the first write was not retained.
C16_Witness ==
    \E w \in Workers :
        /\ level = 2
        /\ Len(wsamples[w]) = 2
        /\ wsamples[w][1].id = 1
        /\ wsamples[w][2].id = 2
        /\ operations[w] = 3
        /\ wsamples[w][2].uuid = 2

\* C17: an I/O error aborts the worker at once and is not retried: a worker leaves
\* the open, a write or a sync only by going on or by aborting, an aborting step
\* completes nothing, an aborted worker never moves again (no write, no sync, no
\* sample), and main takes a sample list only from a worker that returned.
C17_ErrorAborts ==
    [][\A w \in Workers :
           /\ (wpc[w] = "open" /\ wpc'[w] # "open") =>
                  wpc'[w] \in {"arrive", "panicked"}
           /\ (wpc[w] = "write" /\ wpc'[w] # "write") =>
                  wpc'[w] \in {"sync", "loop", "panicked"}
           /\ (wpc[w] = "sync" /\ wpc'[w] # "sync") =>
                  wpc'[w] \in {"loop", "panicked"}
           /\ (wpc[w] # "panicked" /\ wpc'[w] = "panicked") =>
                  /\ wpc[w] \in {"open", "write", "sync"}
                  /\ operations'[w] = operations[w]
                  /\ wsamples'[w] = wsamples[w]
                  /\ barrier_counter' = barrier_counter
           /\ wpc[w] = "panicked" =>
                  /\ wpc'[w] = "panicked"
                  /\ operations'[w] = operations[w]
                  /\ block_current'[w] = block_current[w]
                  /\ wsamples'[w] = wsamples[w]
                  /\ begin'[w] = begin[w]
           /\ (joined' = joined + 1 /\ w = joined) => wpc[w] = "returned"]_vars

\* C17 witness: a worker that had completed a write and retained a sample has
\* aborted, and main, joining it, got no sample list.
C17_Witness ==
    \E w \in Workers :
        /\ wpc[w] = "panicked"
        /\ operations[w] >= 1
        /\ Len(wsamples[w]) >= 1
        /\ main_pc = "panicked"
        /\ joined = w
        /\ \A k \in DOMAIN samples : samples[k] \notin { wsamples[w][j] : j \in DOMAIN wsamples[w] }

\* C18: within a run the barrier counter never decreases and never exceeds
\* writer_threads, and once all workers of the run have incremented it, every
\* worker in the spin leaves it.
C18_BarrierLiveness ==
    /\ [](barrier_counter <= config.writer_threads)
    /\ [][main_pc # "begin" => barrier_counter' >= barrier_counter]_vars
    /\ (\A v \in Workers : Arrived(v)) ~> (\A w \in Workers : PastBarrier(w))

\* C18 witness: in a run of two or more workers every worker has left the spin,
\* the counter standing at writer_threads.
C18_Witness ==
    /\ level = 1
    /\ config.writer_threads >= 2
    /\ barrier_counter = config.writer_threads
    /\ \A w \in Workers : wpc[w] \in {"loop", "wait", "write", "sync"}

\* C19: when there are at least as many blocks as workers, no block is written by
\* two workers of the same run: the sets of blocks written by distinct workers are
\* disjoint, and each lies in the worker's own range.
C19_DisjointWrites ==
    initialized_blocks >= config.writer_threads =>
        \A w, v \in Workers :
            /\ written[w] \subseteq RangeSet(range[w])
            /\ w # v => written[w] \cap written[v] = {}

\* C19 witness: two workers of the second run have each written a block.
C19_Witness ==
    /\ level = 2
    /\ initialized_blocks >= config.writer_threads
    /\ \E w, v \in Workers : w # v /\ written[w] # {} /\ written[v] # {}

\* C20: a worker whose loop is running eventually leaves it, by returning its
\* samples or by a failed write, whatever the other workers do, as long as the
\* clock advances and its writes complete; and a worker starts at most one write
\* at or after its deadline: whenever it starts a further write, the write before
\* it began before end_time.
C20_BoundedOvershoot ==
    /\ [][\A w \in Workers :
              (wpc[w] = "wait" /\ wpc'[w] = "write" /\ operations[w] >= 1)
                  => begin[w] < end_time[w]]_vars
    /\ [](\A w \in Workers :
              (wpc[w] = "returned" /\ operations[w] >= 1) => now >= end_time[w])
    /\ \A w \in 0 .. (MaxThreads - 1) :
           (w \in Workers /\ wpc[w] \in {"loop", "wait", "write", "sync"})
               ~> (~ProcessAlive \/ wpc[w] \in {"returned", "panicked"})

\* C20 witness: a worker has returned after a write that began at its deadline or
\* later.
C20_Witness ==
    \E w \in Workers :
        /\ wpc[w] = "returned"
        /\ operations[w] >= 1
        /\ begin[w] >= end_time[w]

====
